---- MODULE Spec2Model ----
(***************************************************************************)
(* The authenticated trading client of derive-mcp-trader                   *)
(* (src/derive_client.py) and the order and cancel tools of src/server.py, *)
(* as a state machine.  A caller invokes one operation at a time; an operation runs   *)
(* from its entry to its first access to shared state or to the network,   *)
(* and then from one such access to the next: signing the auth headers     *)
(* into the shared session, dispatching a request with the session's       *)
(* headers, and receiving the exchange's answer are separate steps.        *)
(*                                                                         *)
(* The signing SDK (derive_action_signing) is installed and the session    *)
(* key is the one the constructor accepted, so signing the auth headers    *)
(* succeeds; signing an order action may raise, as the SDK decides.  The   *)
(* exchange answers with JSON objects, with text that is no JSON, or not   *)
(* at all; an error it reports is an object with an optional message and   *)
(* optional data.  Under Spec one caller uses the client, one operation    *)
(* at a time.  Under SpecConc two callers each have one operation in       *)
(* flight on the one client.  Under SpecRetry one caller makes privileged  *)
(* calls that run to their end.  Under SpecTransport _post is called by    *)
(* itself, on every endpoint and with everything the network can do.       *)
(* entry and writer are history variables: the code does not keep them.    *)
(***************************************************************************)
EXTENDS Integers, Sequences, FiniteSets, TLC

\* ------------------------------------------------------------------ bounds
MaxClock == 2
MaxCalls == 2

Callers == {1, 2}

\* ------------------------------------------------- Python and JSON values
None == [t |-> "None"]
Unset == [t |-> "unset"]
JStr(s) == [t |-> "str", v |-> s]
JInt(n) == [t |-> "int", v |-> n]
JBool(b) == [t |-> "bool", v |-> b]
JDict(f) == [t |-> "dict", v |-> f]
JList(s) == [t |-> "list", v |-> s]
\* an f-string whose parts are not all text
FStr(parts) == [t |-> "fstr", v |-> parts]
EmptyDict == JDict(<<>>)

\* Python truthiness: `if x`, `x and ...`
Truthy(x) ==
  CASE x.t = "None" -> FALSE
    [] x.t = "str" -> x.v # ""
    [] x.t = "int" -> x.v # 0
    [] x.t = "bool" -> x.v
    [] x.t = "dict" -> DOMAIN x.v # {}
    [] x.t = "list" -> Len(x.v) # 0
    [] OTHER -> TRUE

\* `k in d` for a dict d
HasKey(d, k) == d.t = "dict" /\ k \in DOMAIN d.v

\* d.get(k, default)
Get(d, k, default) == IF HasKey(d, k) THEN d.v[k] ELSE default

\* ------------------------------------------------------ network constants
Networks == {"mainnet", "testnet"}

ENDPOINTS ==
  [mainnet |-> [rest |-> "https://api.lyra.finance"],
   testnet |-> [rest |-> "https://api-demo.lyra.finance"]]

PROTOCOL_CONSTANTS ==
  [mainnet |-> [DOMAIN_SEPARATOR |-> "0xd96e", ACTION_TYPEHASH |-> "0x4d7a",
                TRADE_MODULE_ADDRESS |-> "0xB8D2"],
   testnet |-> [DOMAIN_SEPARATOR |-> "0x9bcf", ACTION_TYPEHASH |-> "0x4d7a",
                TRADE_MODULE_ADDRESS |-> "0x87F2"]]

\* ------------------------------------------------------------- operations
LoginEndpoint == "/private/get_subaccount"
TickerEndpoint == "/public/get_ticker"
OrderEndpoint == "/private/order"

PublicOps == {"get_instruments", "get_ticker", "get_orderbook"}
PrivateReadOps == {"get_account", "get_positions", "get_open_orders", "get_collateral"}
PrivilegedOps == PrivateReadOps \cup {"place_order", "cancel_order", "cancel_all_orders"}

\* the endpoint an operation posts to (place_order: its order submission)
OpEndpoint(name) ==
  CASE name = "get_instruments" -> "/public/get_instruments"
    [] name = "get_ticker" -> TickerEndpoint
    [] name = "get_orderbook" -> "/public/get_order_book"
    [] name = "get_account" -> "/private/get_account"
    [] name = "get_positions" -> "/private/get_positions"
    [] name = "get_open_orders" -> "/private/get_open_orders"
    [] name = "get_collateral" -> "/private/get_collaterals"
    [] name = "place_order" -> OrderEndpoint
    [] name = "cancel_order" -> "/private/cancel"
    [] name = "cancel_all_orders" -> "/private/cancel_all"
    [] name = "login" -> LoginEndpoint

IsPrivate(endpoint) ==
  endpoint \in {LoginEndpoint, OrderEndpoint, "/private/get_account",
                "/private/get_positions", "/private/get_open_orders",
                "/private/get_collaterals", "/private/cancel", "/private/cancel_all"}

\* the arguments callers pass
Instrument == "ETH-PERP"
Sides == {"buy", "sell", "hold"}
Amounts == {-1, 0, 1}
\* the amount strings the order tool is given: decimal text, or text that is no number
AmountTexts == {[numeric |-> TRUE, value |-> a] : a \in Amounts}
                 \cup {[numeric |-> FALSE, value |-> 0]}

NoArgs == [side |-> "", amount |-> 0]
ClientOp(name, args) == [name |-> name, tool |-> FALSE, args |-> args]
ToolOp(name, args) == [name |-> name, tool |-> TRUE, args |-> args]
NoOp == [name |-> "", tool |-> FALSE, args |-> NoArgs]

\* ------------------------------------------------------------ the exchange
\* what requests.Session.post can do: raise (connection error, timeout), or
\* deliver a response with a status code and a body that is JSON or is not
Statuses == {200, 403}
Unparseable == [t |-> "not-json"]

\* the error objects of the exchange: a message and detail, a message, neither
ErrorObjects ==
  {JDict([message |-> JStr("Invalid price"), data |-> JStr("tick size")]),
   JDict([message |-> JStr("insufficient margin")]),
   JDict([code |-> JInt(11000)])}

ErrorsOf(endpoint) ==
  IF endpoint = OrderEndpoint THEN ErrorObjects
  ELSE {JDict([message |-> JStr("Invalid price"), data |-> JStr("tick size")])}

ResultsOf(endpoint) ==
  CASE endpoint = LoginEndpoint -> {JDict([subaccount_id |-> JInt(5)]), None}
    [] endpoint = TickerEndpoint ->
         {JDict([base_asset_address |-> JStr("0xA55E7"), base_asset_sub_id |-> JInt(7)]),
          EmptyDict, None}
    [] endpoint = OrderEndpoint -> {JDict([order_id |-> JStr("o-1")])}
    [] endpoint = "/private/cancel" -> {JDict([order_id |-> JStr("o-1")])}
    [] endpoint = "/private/cancel_all" ->
         {JStr("ok"), JStr("done"), JInt(3), None,
          JDict([cancelled |-> JInt(0)]), JDict([cancelled |-> JInt(2)]),
          JDict([status |-> JStr("ok")])}
    [] endpoint = "/public/get_instruments" ->
         {JList(<<JDict([instrument_name |-> JStr("ETH-PERP")]),
                 JDict([instrument_name |-> JStr("BTC-PERP")])>>)}
    [] endpoint = "/private/get_positions" ->
         {JDict([positions |-> JList(<<>>)]), EmptyDict}
    [] endpoint = "/private/get_open_orders" ->
         {JDict([orders |-> JList(<<JDict([order_id |-> JStr("o-1")])>>)]), EmptyDict}
    [] endpoint = "/private/get_collaterals" ->
         {JDict([collaterals |-> JList(<<JDict([asset_name |-> JStr("USDC")])>>)]), EmptyDict}
    [] OTHER -> {JDict([subaccount_id |-> JInt(5)])}

\* the JSON objects the exchange answers with
BodiesOf(endpoint) ==
  {EmptyDict, JDict([id |-> JInt(1)])}
    \cup {JDict([result |-> r]) : r \in ResultsOf(endpoint)}
    \cup {JDict([error |-> e]) : e \in ErrorsOf(endpoint)}
    \cup {JDict([result |-> r, error |-> JDict([message |-> JStr("Invalid price")])]) :
            r \in ResultsOf(endpoint)}

OutcomesOf(endpoint) ==
  {[kind |-> "exception", exc |-> e, status |-> 0, body |-> Unparseable] :
     e \in {"ConnectionError", "Timeout"}}
    \cup {[kind |-> "response", exc |-> "", status |-> s, body |-> b] :
            s \in Statuses, b \in BodiesOf(endpoint) \cup {Unparseable}}

\* ------------------------------------------------------------------- state
VARIABLES
  network,         \* self.network, chosen at construction
  authenticated,   \* self._authenticated
  headers,         \* the auth headers in self.session.headers
  clock,           \* wall-clock time, in the units the auth header embeds
  calls,           \* operations invoked so far
  pc,              \* each caller's position in its operation
  op,              \* each caller's operation and arguments
  began,           \* the clock when the caller's operation was invoked
  auth_headers,    \* local of login / _refresh_auth_headers: the headers it signed
  stage,           \* place_order: "ticker" before the ticker answer, then "order"
  response,        \* local: what the last _post returned to this operation
  ticker,          \* local of place_order
  action,          \* local of place_order: the SignedAction
  sent,            \* the requests this operation dispatched, in order
  ret,             \* how the client method ended: a return value or an exception
  toolret,         \* how the tool of server.py ended, when the call came through it
  prev,            \* the auth headers on the private request of the latest earlier call
  entry,           \* history: the flag and the session's headers when the operation was invoked
  writer           \* history: the caller whose login or refresh last wrote the session's headers

vars == <<network, authenticated, headers, clock, calls, pc, op, began, auth_headers,
          stage, response, ticker, action, sent, ret, toolret, prev, entry, writer>>

NoHeaders == [present |-> FALSE, timestamp |-> 0]
NoAction == [built |-> FALSE]
NoEntry == [authenticated |-> FALSE, headers |-> NoHeaders]
Pending == [kind |-> "running"]
Returned(val) == [kind |-> "return", val |-> val]
Raised(exc) == [kind |-> "raise", exc |-> exc]

\* --------------------------------------------------- the code's functions
\* a slip: the timestamp signed is not the time of signing
sign_rest_auth_header_epoch(now) == [present |-> TRUE, timestamp |-> 0]

\* sdk_utils.sign_rest_auth_header: headers that embed the time of signing
sign_rest_auth_header(now) == [present |-> TRUE, timestamp |-> now]

\* a slip: the body of a response with an error status is dropped
_post_okOnly(outcome) ==
  IF outcome.kind = "exception" THEN None
  ELSE IF outcome.status >= 400 THEN None
  ELSE IF outcome.body = Unparseable THEN None
  ELSE outcome.body

\* DeriveClient._post: what the caller gets for what the network did
_post(outcome) ==
  IF outcome.kind = "exception" THEN None
  ELSE IF outcome.body = Unparseable THEN None
  ELSE outcome.body

\* `response and "result" in response`
HasResult(resp) == Truthy(resp) /\ HasKey(resp, "result")

\* `response and "error" in response`
HasError(resp) == Truthy(resp) /\ HasKey(resp, "error")

\* a slip: the flag follows the latest probe
LoginAuthenticated_demotes(auth, resp) == HasResult(resp)

\* a slip: any body counts as acceptance
LoginAuthenticated_anybody(auth, resp) == IF Truthy(resp) THEN TRUE ELSE auth

\* login: the value of self._authenticated after the probe's answer
LoginAuthenticated(auth, resp) == IF HasResult(resp) THEN TRUE ELSE auth

\* a slip: the headers are refreshed by login only, and reused once authenticated
EnsureAuthenticated_cached(auth) == IF ~auth THEN "login_sign" ELSE "post"

\* a slip: login is called whether or not the flag is set
EnsureAuthenticated_always(auth) == "login_sign"

\* _ensure_authenticated: where the operation goes on its entry
EnsureAuthenticated(auth) == IF ~auth THEN "login_sign" ELSE "refresh"

\* a slip: the result of login() is not looked at
AfterLogin_ignored(ok) == "refresh"

\* a slip: the call is given up whatever login() returned
AfterLogin_givesUp(ok) == "raise"

\* _ensure_authenticated: where the operation goes when login() has returned
AfterLogin(ok) == IF ~ok THEN "raise" ELSE "refresh"

\* a slip: absent, not the empty list, when there is no result
get_instruments_none(resp) == IF Truthy(resp) THEN Get(resp, "result", None) ELSE None

get_instruments(resp) == IF Truthy(resp) THEN Get(resp, "result", JList(<<>>)) ELSE JList(<<>>)

get_ticker(resp) == IF Truthy(resp) THEN Get(resp, "result", None) ELSE None

get_orderbook(resp) == IF Truthy(resp) THEN Get(resp, "result", None) ELSE None

get_account(resp) == IF Truthy(resp) THEN Get(resp, "result", None) ELSE None

Position(p) ==
  [instrument_name |-> Get(p, "instrument_name", JStr("")),
   side |-> IF Get(p, "amount", JInt(0)).v > 0 THEN "long" ELSE "short",
   amount |-> LET a == Get(p, "amount", JInt(0)).v IN IF a < 0 THEN -a ELSE a,
   average_price |-> Get(p, "average_price", JInt(0)),
   unrealized_pnl |-> Get(p, "unrealized_pnl", JInt(0)),
   realized_pnl |-> Get(p, "realized_pnl", JInt(0))]

get_positions(resp) ==
  IF HasResult(resp)
  THEN LET ps == Get(resp.v.result, "positions", JList(<<>>)).v
       IN JList([i \in 1..Len(ps) |-> Position(ps[i])])
  ELSE JList(<<>>)

get_open_orders(resp) ==
  IF HasResult(resp) THEN Get(resp.v.result, "orders", JList(<<>>)) ELSE JList(<<>>)

get_collateral(resp) ==
  IF HasResult(resp) THEN Get(resp.v.result, "collaterals", JList(<<>>)) ELSE None

cancel_order(resp) == IF HasResult(resp) THEN JBool(TRUE) ELSE JBool(FALSE)

\* a slip: a dict without a count, and a result of another kind, count as nothing cancelled
cancel_all_orders_zero(resp) ==
  IF HasResult(resp)
  THEN LET result == resp.v.result
       IN IF result.t = "str" /\ result = JStr("ok") THEN JInt(1)
          ELSE IF result.t = "dict" THEN Get(result, "cancelled", JInt(0))
          ELSE JInt(0)
  ELSE JInt(0)

cancel_all_orders(resp) ==
  IF HasResult(resp)
  THEN LET result == resp.v.result
       IN IF result.t = "str" /\ result = JStr("ok") THEN JInt(1)
          ELSE IF result.t = "dict" THEN Get(result, "cancelled", JInt(1))
          ELSE JInt(1)
  ELSE JInt(0)

\* place_order: the message of a rejection
RejectionMessage(err) ==
  JStr(Get(err, "message", JStr("Unknown")).v \o " -- " \o Get(err, "data", JStr("")).v)

\* a slip: the error is looked at before the result
OrderOutcome_errorFirst(resp) ==
  IF HasError(resp) THEN JDict([error |-> RejectionMessage(resp.v.error)])
  ELSE IF HasResult(resp) THEN resp.v.result
  ELSE JDict([error |-> FStr(<<"Unexpected response: ", resp>>)])

\* place_order: what it returns for the answer to /private/order
OrderOutcome(resp) ==
  IF HasResult(resp) THEN resp.v.result
  ELSE IF HasError(resp) THEN JDict([error |-> RejectionMessage(resp.v.error)])
  ELSE JDict([error |-> FStr(<<"Unexpected response: ", resp>>)])

\* a slip: the ticker is used without a look at it
TickerMissing_unchecked(tk) == FALSE

\* place_order: `if not ticker`
TickerMissing(tk) == ~Truthy(tk)

NoTickerError(instrument) == JDict([error |-> JStr("Could not get ticker for " \o instrument)])

\* utils.get_action_nonce: derived from the time in ms (its random suffix is left out)
get_action_nonce(now) == [ms |-> now]

Wallet == "0xWALLET"
Signer == "0xSIGNER"
SubaccountId == 5

\* a slip: the amount is not negated for a sell
SignedAction_sameAmount(net, args, tk, nonce) ==
  [built |-> TRUE,
   subaccount_id |-> SubaccountId,
   owner |-> Wallet,
   signer |-> Signer,
   nonce |-> nonce,
   module_address |-> PROTOCOL_CONSTANTS[net].TRADE_MODULE_ADDRESS,
   module_data |->
     [asset_address |-> Get(tk, "base_asset_address", None),
      sub_id |-> Get(tk, "base_asset_sub_id", JInt(0)),
      amount |-> args.amount,
      recipient_id |-> SubaccountId,
      is_bid |-> args.side = "buy"],
   DOMAIN_SEPARATOR |-> PROTOCOL_CONSTANTS[net].DOMAIN_SEPARATOR,
   ACTION_TYPEHASH |-> PROTOCOL_CONSTANTS[net].ACTION_TYPEHASH,
   signed |-> FALSE]

\* a slip: the protocol constants of mainnet, whatever the client's network
SignedAction_mainnet(net, args, tk, nonce) ==
  [built |-> TRUE,
   subaccount_id |-> SubaccountId,
   owner |-> Wallet,
   signer |-> Signer,
   nonce |-> nonce,
   module_address |-> PROTOCOL_CONSTANTS["mainnet"].TRADE_MODULE_ADDRESS,
   module_data |->
     [asset_address |-> Get(tk, "base_asset_address", None),
      sub_id |-> Get(tk, "base_asset_sub_id", JInt(0)),
      amount |-> IF args.side = "buy" THEN args.amount ELSE -args.amount,
      recipient_id |-> SubaccountId,
      is_bid |-> args.side = "buy"],
   DOMAIN_SEPARATOR |-> PROTOCOL_CONSTANTS["mainnet"].DOMAIN_SEPARATOR,
   ACTION_TYPEHASH |-> PROTOCOL_CONSTANTS["mainnet"].ACTION_TYPEHASH,
   signed |-> FALSE]

\* place_order: the SignedAction it constructs, not yet signed
SignedAction(net, args, tk, nonce) ==
  [built |-> TRUE,
   subaccount_id |-> SubaccountId,
   owner |-> Wallet,
   signer |-> Signer,
   nonce |-> nonce,
   module_address |-> PROTOCOL_CONSTANTS[net].TRADE_MODULE_ADDRESS,
   module_data |->
     [asset_address |-> Get(tk, "base_asset_address", None),
      sub_id |-> Get(tk, "base_asset_sub_id", JInt(0)),
      amount |-> IF args.side = "buy" THEN args.amount ELSE -args.amount,
      recipient_id |-> SubaccountId,
      is_bid |-> args.side = "buy"],
   DOMAIN_SEPARATOR |-> PROTOCOL_CONSTANTS[net].DOMAIN_SEPARATOR,
   ACTION_TYPEHASH |-> PROTOCOL_CONSTANTS[net].ACTION_TYPEHASH,
   signed |-> FALSE]

\* a slip: the action goes out as it was built
Sign_skipped(a) == a

\* action.sign(self.signer.key)
Sign(a) == [a EXCEPT !.signed = TRUE]

\* place_order: the payload of /private/order
OrderPayload(args, a) == [direction |-> args.side, action |-> a]
NoPayload == [direction |-> "", action |-> NoAction]

\* server.place_order: whether the arguments get as far as the client; the side is
\* looked at, the amount is not
ToolAccepts(side, amount) == side \in {"buy", "sell"}

\* json.dumps of a dict
JsonText(d) == [t |-> "json", v |-> d]

\* server.place_order: what the tool returns for what the client returned
ToolPlaceOrderResult(r) ==
  IF r.kind = "raise" THEN r
  ELSE IF HasKey(r.val, "error")
       THEN Returned(JsonText([status |-> "failed", error |-> r.val.v.error]))
       ELSE Returned(JsonText([status |-> "success", order |-> r.val]))

\* server.cancel_order: what the tool returns for what the client returned
ToolCancelOrderResult(r) ==
  IF r.kind = "raise" THEN r
  ELSE IF Truthy(r.val)
       THEN Returned(JsonText([status |-> "success", message |-> JStr("Order cancelled.")]))
       ELSE Returned(JsonText([status |-> "failed", message |-> JStr("Failed to cancel order.")]))

\* server.cancel_all_orders: what the tool returns for what the client returned
ToolCancelAllResult(r) ==
  IF r.kind = "raise" THEN r
  ELSE Returned(JsonText([status |-> "success", cancelled |-> r.val]))

\* the tool of server.py over a mutating operation of the client
ToolResult(name, r) ==
  CASE name = "place_order" -> ToolPlaceOrderResult(r)
    [] name = "cancel_order" -> ToolCancelOrderResult(r)
    [] name = "cancel_all_orders" -> ToolCancelAllResult(r)

\* ------------------------------------------------------------------ steps
Init ==
  /\ network \in Networks
  /\ authenticated = FALSE
  /\ headers = NoHeaders
  /\ clock = 0
  /\ calls = 0
  /\ pc = [c \in Callers |-> IF c = 1 THEN "idle" ELSE "off"]
  /\ op = [c \in Callers |-> NoOp]
  /\ began = [c \in Callers |-> 0]
  /\ auth_headers = [c \in Callers |-> NoHeaders]
  /\ stage = [c \in Callers |-> ""]
  /\ response = [c \in Callers |-> Unset]
  /\ ticker = [c \in Callers |-> Unset]
  /\ action = [c \in Callers |-> NoAction]
  /\ sent = [c \in Callers |-> <<>>]
  /\ ret = [c \in Callers |-> Pending]
  /\ toolret = [c \in Callers |-> Unset]
  /\ prev = NoHeaders
  /\ entry = [c \in Callers |-> NoEntry]
  /\ writer = 0

\* time passes
Tick ==
  /\ clock < MaxClock
  /\ clock' = clock + 1
  /\ UNCHANGED <<network, authenticated, headers, calls, pc, op, began, auth_headers,
                 stage, response, ticker, action, sent, ret, toolret, prev, entry, writer>>

\* the request _post dispatches: session.post sends the session's headers as they are now
Request(endpoint, payload) ==
  [url |-> ENDPOINTS[network].rest,
   endpoint |-> endpoint,
   headers |-> headers,
   authenticated |-> authenticated,
   payload |-> payload,
   writer |-> writer,
   answer |-> "inflight",
   result |-> FALSE]

\* the private requests of an operation other than login probes
OwnPrivate(reqs) ==
  {i \in 1..Len(reqs) : IsPrivate(reqs[i].endpoint) /\ reqs[i].endpoint # LoginEndpoint}

\* a caller invokes an operation
Invoke(c, o, at) ==
  /\ pc[c] = "idle"
  /\ calls < MaxCalls
  /\ calls' = calls + 1
  /\ op' = [op EXCEPT ![c] = o]
  /\ began' = [began EXCEPT ![c] = clock]
  /\ pc' = [pc EXCEPT ![c] = at]
  /\ entry' = [entry EXCEPT ![c] = [authenticated |-> authenticated, headers |-> headers]]
  /\ UNCHANGED <<network, authenticated, headers, clock, auth_headers, stage, response,
                 ticker, action, sent, prev, writer>>

\* the caller has its outcome: the locals of the operation are gone
Return(c) ==
  /\ pc[c] = "done"
  /\ pc' = [pc EXCEPT ![c] = "idle"]
  /\ op' = [op EXCEPT ![c] = NoOp]
  /\ began' = [began EXCEPT ![c] = 0]
  /\ auth_headers' = [auth_headers EXCEPT ![c] = NoHeaders]
  /\ stage' = [stage EXCEPT ![c] = ""]
  /\ response' = [response EXCEPT ![c] = Unset]
  /\ ticker' = [ticker EXCEPT ![c] = Unset]
  /\ action' = [action EXCEPT ![c] = NoAction]
  /\ sent' = [sent EXCEPT ![c] = <<>>]
  /\ ret' = [ret EXCEPT ![c] = Pending]
  /\ toolret' = [toolret EXCEPT ![c] = Unset]
  /\ prev' = IF OwnPrivate(sent[c]) # {}
             THEN sent[c][CHOOSE i \in OwnPrivate(sent[c]) :
                            \A j \in OwnPrivate(sent[c]) : j <= i].headers
             ELSE prev
  /\ entry' = [entry EXCEPT ![c] = NoEntry]
  /\ UNCHANGED <<network, authenticated, headers, clock, calls, writer>>

\* the operation ends with r; a call that came through the tool ends there too
Finish(c, r) ==
  /\ pc' = [pc EXCEPT ![c] = "done"]
  /\ ret' = [ret EXCEPT ![c] = r]
  /\ toolret' = [toolret EXCEPT ![c] = IF op[c].tool THEN ToolResult(op[c].name, r) ELSE Unset]

\* the answer to the request in flight is recorded: what the network did, and whether
\* what _post returned carries a result
Answered(c, outcome) ==
  [sent EXCEPT ![c][Len(sent[c])] =
     [@ EXCEPT !.answer = IF outcome.kind = "exception" THEN "exception"
                          ELSE IF outcome.body = Unparseable THEN "unparseable" ELSE "json",
               !.result = HasResult(_post(outcome))]]

\* OrderParams as the client's contract has them: a side of the enum, an amount > 0
OrderArgs == {[side |-> s, amount |-> a] : s \in {"buy", "sell"}, a \in {a \in Amounts : a > 0}}

ArgsOf(name) == IF name = "place_order" THEN OrderArgs ELSE {NoArgs}

\* DeriveClient.login()
CallLogin(c) ==
  /\ Invoke(c, ClientOp("login", NoArgs), "login_sign")
  /\ ret' = [ret EXCEPT ![c] = Pending]
  /\ toolret' = [toolret EXCEPT ![c] = Unset]

\* a slip: the public reads go through _ensure_authenticated like the private ones
CallPublic_authenticates(c, name) ==
  /\ name \in PublicOps
  /\ Invoke(c, ClientOp(name, NoArgs), EnsureAuthenticated(authenticated))
  /\ ret' = [ret EXCEPT ![c] = Pending]
  /\ toolret' = [toolret EXCEPT ![c] = Unset]

\* get_instruments, get_ticker, get_orderbook: straight to _post
CallPublic(c, name) ==
  /\ name \in PublicOps
  /\ Invoke(c, ClientOp(name, NoArgs), "post")
  /\ ret' = [ret EXCEPT ![c] = Pending]
  /\ toolret' = [toolret EXCEPT ![c] = Unset]

\* a privileged operation of the client: _ensure_authenticated reads the flag
CallPrivileged(c, name, args) ==
  /\ name \in PrivilegedOps
  /\ args \in ArgsOf(name)
  /\ Invoke(c, ClientOp(name, args), EnsureAuthenticated(authenticated))
  /\ ret' = [ret EXCEPT ![c] = Pending]
  /\ toolret' = [toolret EXCEPT ![c] = Unset]

\* server.place_order: the side is checked, the amount is parsed, the client is called
ToolPlaceOrder(c, side, text) ==
  LET args == [side |-> side, amount |-> text.value]
      o == ToolOp("place_order", args)
  IN IF ~ToolAccepts(side, text)
     THEN /\ Invoke(c, o, "done")
          /\ ret' = [ret EXCEPT ![c] = Unset]
          /\ toolret' = [toolret EXCEPT ![c] =
                           Returned(JStr("Invalid side '" \o side \o "'. Must be 'buy' or 'sell'."))]
     ELSE IF ~text.numeric
     THEN /\ Invoke(c, o, "done")
          /\ ret' = [ret EXCEPT ![c] = Unset]
          /\ toolret' = [toolret EXCEPT ![c] = Raised("InvalidOperation")]
     ELSE /\ Invoke(c, o, EnsureAuthenticated(authenticated))
          /\ ret' = [ret EXCEPT ![c] = Pending]
          /\ toolret' = [toolret EXCEPT ![c] = Pending]

\* server.cancel_order, server.cancel_all_orders: the client is called
ToolCancel(c, name) ==
  /\ name \in {"cancel_order", "cancel_all_orders"}
  /\ Invoke(c, ToolOp(name, NoArgs), EnsureAuthenticated(authenticated))
  /\ ret' = [ret EXCEPT ![c] = Pending]
  /\ toolret' = [toolret EXCEPT ![c] = Pending]

\* login: sign the timestamp and put the headers into the session
LoginSign(c) ==
  /\ pc[c] = "login_sign"
  /\ auth_headers' = [auth_headers EXCEPT ![c] = sign_rest_auth_header(clock)]
  /\ headers' = sign_rest_auth_header(clock)
  /\ pc' = [pc EXCEPT ![c] = "login_post"]
  /\ writer' = c
  /\ UNCHANGED <<network, authenticated, clock, calls, op, began, stage, response,
                 ticker, action, sent, ret, toolret, prev, entry>>

\* login: the verification request is dispatched
LoginPost(c) ==
  /\ pc[c] = "login_post"
  /\ sent' = [sent EXCEPT ![c] = Append(@, Request(LoginEndpoint, NoPayload))]
  /\ pc' = [pc EXCEPT ![c] = "login_wait"]
  /\ UNCHANGED <<network, authenticated, headers, clock, calls, op, began, auth_headers,
                 stage, response, ticker, action, ret, toolret, prev, entry, writer>>

\* login: the answer to the verification request, and what the caller of login does
LoginResponse(c, outcome) ==
  /\ pc[c] = "login_wait"
  /\ outcome \in OutcomesOf(LoginEndpoint)
  /\ LET resp == _post(outcome)
         ok == HasResult(resp)
     IN /\ response' = [response EXCEPT ![c] = resp]
        /\ authenticated' = LoginAuthenticated(authenticated, resp)
        /\ IF op[c].name = "login"
           THEN Finish(c, Returned(JBool(ok)))
           ELSE IF AfterLogin(ok) = "raise"
           THEN Finish(c, Raised("RuntimeError"))
           ELSE /\ pc' = [pc EXCEPT ![c] = "refresh"]
                /\ UNCHANGED <<ret, toolret>>
  /\ sent' = Answered(c, outcome)
  /\ UNCHANGED <<network, headers, clock, calls, op, began, auth_headers, stage,
                 ticker, action, prev, entry, writer>>

\* a slip: the timestamp signed is the time the operation was invoked
RefreshAuthHeaders_entryTime(c) ==
  /\ pc[c] = "refresh"
  /\ auth_headers' = [auth_headers EXCEPT ![c] = sign_rest_auth_header(began[c])]
  /\ headers' = sign_rest_auth_header(began[c])
  /\ pc' = [pc EXCEPT ![c] = "post"]
  /\ writer' = c
  /\ UNCHANGED <<network, authenticated, clock, calls, op, began, stage, response,
                 ticker, action, sent, ret, toolret, prev, entry>>

\* a slip: the headers are signed and not put into the session
RefreshAuthHeaders_local(c) ==
  /\ pc[c] = "refresh"
  /\ auth_headers' = [auth_headers EXCEPT ![c] = sign_rest_auth_header(clock)]
  /\ pc' = [pc EXCEPT ![c] = "post"]
  /\ UNCHANGED <<network, authenticated, headers, clock, calls, op, began, stage, response,
                 ticker, action, sent, ret, toolret, prev, entry, writer>>

\* _refresh_auth_headers
RefreshAuthHeaders(c) ==
  /\ pc[c] = "refresh"
  /\ auth_headers' = [auth_headers EXCEPT ![c] = sign_rest_auth_header(clock)]
  /\ headers' = sign_rest_auth_header(clock)
  /\ pc' = [pc EXCEPT ![c] = "post"]
  /\ writer' = c
  /\ UNCHANGED <<network, authenticated, clock, calls, op, began, stage, response,
                 ticker, action, sent, ret, toolret, prev, entry>>

\* the endpoint of the operation's next request
NextEndpoint(c) ==
  IF op[c].name = "place_order" /\ stage[c] # "order" THEN TickerEndpoint
  ELSE OpEndpoint(op[c].name)

\* _post: the operation's request is dispatched
Dispatch(c) ==
  /\ pc[c] = "post"
  /\ sent' = [sent EXCEPT ![c] =
                Append(@, Request(NextEndpoint(c),
                                  IF NextEndpoint(c) = OrderEndpoint
                                  THEN OrderPayload(op[c].args, action[c])
                                  ELSE NoPayload))]
  /\ pc' = [pc EXCEPT ![c] = "wait"]
  /\ UNCHANGED <<network, authenticated, headers, clock, calls, op, began, auth_headers,
                 stage, response, ticker, action, ret, toolret, prev, entry, writer>>

\* what a read or cancel operation returns for the answer to its request
ResultOf(name, resp) ==
  CASE name = "get_instruments" -> get_instruments(resp)
    [] name = "get_ticker" -> get_ticker(resp)
    [] name = "get_orderbook" -> get_orderbook(resp)
    [] name = "get_account" -> get_account(resp)
    [] name = "get_positions" -> get_positions(resp)
    [] name = "get_open_orders" -> get_open_orders(resp)
    [] name = "get_collateral" -> get_collateral(resp)
    [] name = "cancel_order" -> cancel_order(resp)
    [] name = "cancel_all_orders" -> cancel_all_orders(resp)

\* the answer to the request of a read or cancel operation, for what the network did
ResponseTo(c, outcome) ==
  /\ response' = [response EXCEPT ![c] = _post(outcome)]
  /\ sent' = Answered(c, outcome)
  /\ Finish(c, Returned(ResultOf(op[c].name, _post(outcome))))
  /\ UNCHANGED <<network, authenticated, headers, clock, calls, op, began, auth_headers,
                 stage, ticker, action, prev, entry, writer>>

\* the answer to the request of a read or cancel operation
Response(c) ==
  /\ pc[c] = "wait"
  /\ op[c].name # "place_order"
  /\ \E outcome \in OutcomesOf(NextEndpoint(c)) : ResponseTo(c, outcome)

\* place_order: the ticker's answer; the action is built and signed, or the call ends
TickerResponse(c, outcome, signs) ==
  /\ pc[c] = "wait"
  /\ op[c].name = "place_order"
  /\ stage[c] # "order"
  /\ outcome \in OutcomesOf(TickerEndpoint)
  /\ LET tk == get_ticker(_post(outcome))
         a == SignedAction(network, op[c].args, tk, get_action_nonce(clock))
     IN /\ response' = [response EXCEPT ![c] = _post(outcome)]
        /\ ticker' = [ticker EXCEPT ![c] = tk]
        /\ IF TickerMissing(tk)
           THEN /\ Finish(c, Returned(NoTickerError(Instrument)))
                /\ UNCHANGED <<action, stage>>
           ELSE IF ~signs
           THEN /\ Finish(c, Returned(JDict([error |-> JStr("signing failed")])))
                /\ action' = [action EXCEPT ![c] = a]
                /\ UNCHANGED stage
           ELSE /\ action' = [action EXCEPT ![c] = Sign(a)]
                /\ stage' = [stage EXCEPT ![c] = "order"]
                /\ pc' = [pc EXCEPT ![c] = "post"]
                /\ UNCHANGED <<ret, toolret>>
  /\ sent' = Answered(c, outcome)
  /\ UNCHANGED <<network, authenticated, headers, clock, calls, op, began, auth_headers,
                 prev, entry, writer>>

\* a slip: a submission that got no answer is posted again
OrderResponse_retry(c, outcome) ==
  /\ pc[c] = "wait"
  /\ op[c].name = "place_order"
  /\ stage[c] = "order"
  /\ outcome \in OutcomesOf(OrderEndpoint)
  /\ response' = [response EXCEPT ![c] = _post(outcome)]
  /\ sent' = Answered(c, outcome)
  /\ IF _post(outcome) = None
     THEN /\ pc' = [pc EXCEPT ![c] = "post"]
          /\ UNCHANGED <<ret, toolret>>
     ELSE Finish(c, Returned(OrderOutcome(_post(outcome))))
  /\ UNCHANGED <<network, authenticated, headers, clock, calls, op, began, auth_headers,
                 stage, ticker, action, prev, entry, writer>>

\* place_order: the answer to /private/order
OrderResponse(c, outcome) ==
  /\ pc[c] = "wait"
  /\ op[c].name = "place_order"
  /\ stage[c] = "order"
  /\ outcome \in OutcomesOf(OrderEndpoint)
  /\ response' = [response EXCEPT ![c] = _post(outcome)]
  /\ sent' = Answered(c, outcome)
  /\ Finish(c, Returned(OrderOutcome(_post(outcome))))
  /\ UNCHANGED <<network, authenticated, headers, clock, calls, op, began, auth_headers,
                 stage, ticker, action, prev, entry, writer>>

Next ==
  \/ Tick
  \/ \E c \in Callers : CallLogin(c)
  \/ \E c \in Callers, name \in PublicOps : CallPublic(c, name)
  \/ \E c \in Callers, name \in PrivilegedOps, args \in OrderArgs \cup {NoArgs} :
       CallPrivileged(c, name, args)
  \/ \E c \in Callers, side \in Sides, text \in AmountTexts : ToolPlaceOrder(c, side, text)
  \/ \E c \in Callers, name \in {"cancel_order", "cancel_all_orders"} : ToolCancel(c, name)
  \/ \E c \in Callers : LoginSign(c)
  \/ \E c \in Callers : LoginPost(c)
  \/ \E c \in Callers, outcome \in OutcomesOf(LoginEndpoint) : LoginResponse(c, outcome)
  \/ \E c \in Callers : RefreshAuthHeaders(c)
  \/ \E c \in Callers : Dispatch(c)
  \/ \E c \in Callers : Response(c)
  \/ \E c \in Callers, outcome \in OutcomesOf(TickerEndpoint), signs \in BOOLEAN :
       TickerResponse(c, outcome, signs)
  \/ \E c \in Callers : Return(c)
  \/ \E c \in Callers, outcome \in OutcomesOf(OrderEndpoint) : OrderResponse(c, outcome)

Spec == Init /\ [][Next]_vars

\* ------------------------------------------ two operations on one client
\* the client of server.py is one object for every tool call; here both callers may have
\* an operation in flight at once, and their steps interleave on the session's headers.
\* Each caller invokes one operation, place_order the one and a single-request privileged
\* read the other; the network either times out or answers 200 with a result that is there
ConcOp(c) == IF c = 1 THEN "place_order" ELSE "get_account"
ConcArgs(name) == IF name = "place_order" THEN {[side |-> "buy", amount |-> 1]} ELSE {NoArgs}

ConcOutcomes(endpoint) ==
  {o \in OutcomesOf(endpoint) :
     \/ o.kind = "exception" /\ o.exc = "Timeout"
     \/ /\ o.kind = "response"
        /\ o.status = 200
        /\ \E r \in ResultsOf(endpoint) : Truthy(r) /\ o.body = JDict([result |-> r])}

InitConc ==
  /\ network = "mainnet"
  /\ authenticated = FALSE
  /\ headers = NoHeaders
  /\ clock = 0
  /\ calls = 0
  /\ pc = [c \in Callers |-> "idle"]
  /\ op = [c \in Callers |-> NoOp]
  /\ began = [c \in Callers |-> 0]
  /\ auth_headers = [c \in Callers |-> NoHeaders]
  /\ stage = [c \in Callers |-> ""]
  /\ response = [c \in Callers |-> Unset]
  /\ ticker = [c \in Callers |-> Unset]
  /\ action = [c \in Callers |-> NoAction]
  /\ sent = [c \in Callers |-> <<>>]
  /\ ret = [c \in Callers |-> Pending]
  /\ toolret = [c \in Callers |-> Unset]
  /\ prev = NoHeaders
  /\ entry = [c \in Callers |-> NoEntry]
  /\ writer = 0

\* the answer to the request of the read
ResponseConc(c) ==
  /\ pc[c] = "wait"
  /\ op[c].name # "place_order"
  /\ \E outcome \in ConcOutcomes(NextEndpoint(c)) : ResponseTo(c, outcome)

NextConc ==
  \/ Tick
  \/ \E c \in Callers :
       \E args \in ConcArgs(ConcOp(c)) : CallPrivileged(c, ConcOp(c), args)
  \/ \E c \in Callers : LoginSign(c)
  \/ \E c \in Callers : LoginPost(c)
  \/ \E c \in Callers, outcome \in ConcOutcomes(LoginEndpoint) : LoginResponse(c, outcome)
  \/ \E c \in Callers : RefreshAuthHeaders(c)
  \/ \E c \in Callers : Dispatch(c)
  \/ \E c \in Callers : ResponseConc(c)
  \/ \E c \in Callers, outcome \in ConcOutcomes(TickerEndpoint) :
       TickerResponse(c, outcome, TRUE)
  \/ \E c \in Callers, outcome \in ConcOutcomes(OrderEndpoint) : OrderResponse(c, outcome)

SpecConc == InitConc /\ [][NextConc]_vars

\* ------------------------------------------- privileged calls, run to the end
\* one caller makes privileged calls of the client one after the other.  An operation
\* that has been invoked runs on: its code is straight-line, and session.post returns or
\* raises within its timeout of 30 s, so no step of a call in progress is put off forever.
\* The login probe meets everything the network can do; the operation's own requests
\* time out or are answered 200 with a result that is there
NextRetry ==
  \/ Tick
  \/ \E c \in Callers, name \in PrivilegedOps :
       \E args \in ConcArgs(name) : CallPrivileged(c, name, args)
  \/ \E c \in Callers : LoginSign(c)
  \/ \E c \in Callers : LoginPost(c)
  \/ \E c \in Callers, outcome \in OutcomesOf(LoginEndpoint) : LoginResponse(c, outcome)
  \/ \E c \in Callers : RefreshAuthHeaders(c)
  \/ \E c \in Callers : Dispatch(c)
  \/ \E c \in Callers : ResponseConc(c)
  \/ \E c \in Callers, outcome \in ConcOutcomes(TickerEndpoint) :
       TickerResponse(c, outcome, TRUE)
  \/ \E c \in Callers, outcome \in ConcOutcomes(OrderEndpoint) : OrderResponse(c, outcome)
  \/ \E c \in Callers : Return(c)

\* the steps of a call in progress
Progress ==
  \/ \E c \in Callers : LoginSign(c)
  \/ \E c \in Callers : LoginPost(c)
  \/ \E c \in Callers, outcome \in OutcomesOf(LoginEndpoint) : LoginResponse(c, outcome)
  \/ \E c \in Callers : RefreshAuthHeaders(c)
  \/ \E c \in Callers : Dispatch(c)
  \/ \E c \in Callers : ResponseConc(c)
  \/ \E c \in Callers, outcome \in ConcOutcomes(TickerEndpoint) :
       TickerResponse(c, outcome, TRUE)
  \/ \E c \in Callers, outcome \in ConcOutcomes(OrderEndpoint) : OrderResponse(c, outcome)

SpecRetry == Init /\ [][NextRetry]_vars /\ WF_vars(Progress)

\* ------------------------------------------------- the transport by itself
\* every endpoint the client posts to
Endpoints == {OpEndpoint(name) : name \in PublicOps \cup PrivilegedOps \cup {"login"}}

\* one call of _post, whole: session.post is called once, the body is parsed, the caller
\* gets what _post returns; the request is kept with what the network did to it
TransportPost(c, endpoint, outcome) ==
  /\ pc[c] = "idle"
  /\ calls < MaxCalls
  /\ endpoint \in Endpoints
  /\ outcome \in OutcomesOf(endpoint)
  /\ calls' = calls + 1
  /\ sent' = [sent EXCEPT ![c] =
                <<[Request(endpoint, NoPayload) EXCEPT
                     !.answer = IF outcome.kind = "exception" THEN "exception"
                                ELSE IF outcome.body = Unparseable THEN "unparseable"
                                ELSE "json",
                     !.result = HasResult(_post(outcome))]
                  @@ [outcome |-> outcome]>>]
  /\ response' = [response EXCEPT ![c] = _post(outcome)]
  /\ UNCHANGED <<network, authenticated, headers, clock, pc, op, began, auth_headers,
                 stage, ticker, action, ret, toolret, prev, entry, writer>>

NextTransport ==
  \E c \in Callers, endpoint \in Endpoints :
    \E outcome \in OutcomesOf(endpoint) : TransportPost(c, endpoint, outcome)

SpecTransport == Init /\ [][NextTransport]_vars

\* ----------------------------------------------------------------- claims
\* the shapes of what _post returns, as the claims speak of them
Absent(resp) == resp = None
Contains(resp, k) == resp.t = "dict" /\ k \in DOMAIN resp.v
Last(reqs) == reqs[Len(reqs)]
Ended(c, name) == pc[c] = "done" /\ op[c].name = name /\ ret[c] # Unset

\* C1: every private request of a privileged operation carries the auth headers that
\* the operation itself signed, after it was invoked and before it dispatched the
\* request, whether or not the client was already authenticated; so its timestamp
\* differs from the one an earlier call's request carried at an earlier time.
C1_HeadersRegenerated ==
  \A c \in Callers : \A i \in OwnPrivate(sent[c]) :
    LET r == sent[c][i]
    IN /\ r.headers.present
       /\ r.headers = auth_headers[c]
       /\ r.headers.timestamp >= began[c]
       /\ r.headers.timestamp <= clock
       /\ (prev.present /\ prev.timestamp < began[c])
            => r.headers.timestamp # prev.timestamp

\* C1 witness: a privileged request of a call that found the client authenticated
\* (it sent no probe), later than the request of an earlier call.
C1_Witness ==
  \E c \in Callers :
    /\ OwnPrivate(sent[c]) # {}
    /\ \A i \in 1..Len(sent[c]) : sent[c][i].endpoint # LoginEndpoint
    /\ prev.present
    /\ prev.timestamp < began[c]

\* C2: no private request other than the login probe is dispatched while the flag is
\* false, and a privileged operation whose probe was not accepted raises the
\* authentication error with the probe as its only request.
C2_NoPrivateRequestUnauthenticated ==
  \A c \in Callers :
    /\ \A i \in OwnPrivate(sent[c]) : sent[c][i].authenticated
    /\ \A i \in 1..Len(sent[c]) :
         ( /\ sent[c][i].endpoint = LoginEndpoint
           /\ op[c].name # "login"
           /\ sent[c][i].answer # "inflight"
           /\ ~sent[c][i].result )
         => /\ pc[c] = "done"
            /\ ret[c] = Raised("RuntimeError")
            /\ Len(sent[c]) = i

\* C2 witness: a privileged operation ended by a rejected probe.
C2_Witness ==
  \E c \in Callers :
    /\ op[c].name \in PrivilegedOps
    /\ ret[c] = Raised("RuntimeError")
    /\ Len(sent[c]) = 1
    /\ ~authenticated

\* C3: once the flag is true, no step makes it false.
C3_NeverDemoted == [][authenticated => authenticated']_vars

\* C3 witness: an explicit login() whose probe was rejected while the flag was true.
C3_Witness ==
  \E c \in Callers :
    /\ Ended(c, "login")
    /\ ret[c] = Returned(JBool(FALSE))
    /\ authenticated

\* C4: the flag is false at construction; a step changes it only from false to true, and
\* only as the answer to a login probe that carried the headers login had just signed
\* and came back with a result; a probe that comes back otherwise leaves the flag as it
\* was and login() returns false.
C4_SetOnlyByAcceptedProbe ==
  /\ authenticated = FALSE
  /\ [][ /\ authenticated' # authenticated =>
              /\ authenticated'
              /\ \E c \in Callers :
                   /\ pc[c] = "login_wait"
                   /\ pc'[c] # "login_wait"
                   /\ Last(sent[c]).endpoint = LoginEndpoint
                   /\ Last(sent[c]).headers = auth_headers[c]
                   /\ Contains(response'[c], "result")
         /\ \A c \in Callers :
              (pc[c] = "login_wait" /\ pc'[c] # "login_wait"
                 /\ ~Contains(response'[c], "result"))
              => /\ authenticated' = authenticated
                 /\ pc'[c] = "done"
                 /\ ret'[c] = IF op[c].name = "login" THEN Returned(JBool(FALSE))
                              ELSE Raised("RuntimeError")
       ]_vars

\* C4 witness: login() returned true on an accepted probe.
C4_Witness ==
  \E c \in Callers :
    /\ Ended(c, "login")
    /\ ret[c] = Returned(JBool(TRUE))
    /\ Contains(response[c], "result")
    /\ authenticated

\* C5: when get_ticker returned absent, place_order has ended with the error
\* 'Could not get ticker for <instrument>', has built and signed no action, and has
\* sent nothing to /private/order.
C5_NoTickerNoSigning ==
  \A c \in Callers :
    (op[c].name = "place_order" /\ Absent(ticker[c]))
    => /\ pc[c] = "done"
       /\ ret[c] = Returned(JDict([error |-> JStr("Could not get ticker for ETH-PERP")]))
       /\ action[c] = NoAction
       /\ \A i \in 1..Len(sent[c]) : sent[c][i].endpoint # OrderEndpoint

\* C5 witness: a place_order whose ticker request was answered and gave no ticker.
C5_Witness ==
  \E c \in Callers :
    /\ Ended(c, "place_order")
    /\ Absent(ticker[c])
    /\ Last(sent[c]).endpoint = TickerEndpoint
    /\ Last(sent[c]).answer = "json"

\* the message place_order makes of an error object
C6_Message(e) ==
  (IF "message" \in DOMAIN e.v THEN e.v.message.v ELSE "Unknown")
    \o " -- " \o (IF "data" \in DOMAIN e.v THEN e.v.data.v ELSE "")

\* C6: place_order returns, for the answer to /private/order: the result when the
\* body contains one (also when it contains an error too); else an error made of the
\* error's message and data when the body contains an error; else an
\* unexpected-response error.
C6_OrderClassification ==
  \A c \in Callers :
    (Ended(c, "place_order") /\ Last(sent[c]).endpoint = OrderEndpoint)
    => LET r == response[c]
       IN IF Contains(r, "result") THEN ret[c] = Returned(r.v.result)
          ELSE IF Contains(r, "error")
          THEN ret[c] = Returned(JDict([error |-> JStr(C6_Message(r.v.error))]))
          ELSE ret[c] = Returned(JDict([error |-> FStr(<<"Unexpected response: ", r>>)]))

\* C6 witness: a body with both a result and an error was returned as the order.
C6_Witness ==
  \E c \in Callers :
    /\ Ended(c, "place_order")
    /\ Last(sent[c]).endpoint = OrderEndpoint
    /\ Contains(response[c], "result")
    /\ Contains(response[c], "error")
    /\ ret[c] = Returned(response[c].v.result)

\* C7 (as claimed): a place_order in which some request met a connection error or a
\* timeout has returned an {error} value, and has not raised.
C7_NetworkFailureIsErrorValue ==
  \A c \in Callers :
    (Ended(c, "place_order") /\ \E i \in 1..Len(sent[c]) : sent[c][i].answer = "exception")
    => /\ ret[c].kind = "return"
       /\ Contains(ret[c].val, "error")

\* C8 (as claimed): cancel_order ends with a boolean and never with an exception: true
\* when the answer to /private/cancel contains a result, false otherwise.
C8_CancelReturnsBoolean ==
  \A c \in Callers :
    Ended(c, "cancel_order")
    => /\ ret[c].kind = "return"
       /\ ret[c].val = JBool(/\ OwnPrivate(sent[c]) # {}
                             /\ Contains(response[c], "result"))

\* C9: cancel_all_orders returns, for the answer to /private/cancel_all: 0 when it is
\* absent or has no result; 1 when the result is "ok"; the cancelled count of a
\* result that is a record, or 1 when the record has none; 1 for any other result.
C9_CancelAllCount ==
  \A c \in Callers :
    (Ended(c, "cancel_all_orders") /\ OwnPrivate(sent[c]) # {})
    => LET r == response[c]
       IN IF ~Contains(r, "result") THEN ret[c] = Returned(JInt(0))
          ELSE IF r.v.result = JStr("ok") THEN ret[c] = Returned(JInt(1))
          ELSE IF r.v.result.t = "dict"
          THEN ret[c] = Returned(IF "cancelled" \in DOMAIN r.v.result.v
                                 THEN r.v.result.v.cancelled ELSE JInt(1))
          ELSE ret[c] = Returned(JInt(1))

\* C9 witness: the count of a structured result was returned.
C9_Witness ==
  \E c \in Callers :
    /\ Ended(c, "cancel_all_orders")
    /\ Contains(response[c], "result")
    /\ response[c].v.result = JDict([cancelled |-> JInt(2)])
    /\ ret[c] = Returned(JInt(2))

\* C10 (as claimed): for an order request through the tool with an amount that is not
\* positive or a side that is neither buy nor sell, no request is dispatched.
C10_MalformedOrderSendsNothing ==
  \A c \in Callers :
    (op[c].tool /\ (op[c].args.amount <= 0 \/ op[c].args.side \notin {"buy", "sell"}))
    => sent[c] = <<>>

\* the requests of an operation that go to the given endpoints
RequestsTo(reqs, endpoints) == {i \in 1..Len(reqs) : reqs[i].endpoint \in endpoints}

\* C11: an invocation of a client operation dispatches at most one authentication probe
\* and at most two further requests; two only in place_order, the ticker fetch and then
\* the submission; /private/order is posted at most once in a call, and only by place_order
C11_AtMostOneProbeTwoRequests ==
  \A c \in Callers :
    LET reqs == sent[c]
        probes == RequestsTo(reqs, {LoginEndpoint})
        further == (1..Len(reqs)) \ probes
        orders == RequestsTo(reqs, {OrderEndpoint})
    IN /\ Cardinality(probes) <= 1
       /\ Cardinality(further) <= 2
       /\ \A i \in probes, j \in further : i < j
       /\ Cardinality(further) = 2 =>
            /\ op[c].name = "place_order"
            /\ reqs[Len(reqs) - 1].endpoint = TickerEndpoint
            /\ reqs[Len(reqs)].endpoint = OrderEndpoint
       /\ Cardinality(orders) <= 1
       /\ orders # {} => op[c].name = "place_order"

C11_Witness ==
  \E c \in Callers :
    /\ Ended(c, "place_order")
    /\ Len(sent[c]) = 3
    /\ sent[c][1].endpoint = LoginEndpoint
    /\ sent[c][3].endpoint = OrderEndpoint
    /\ sent[c][3].answer = "exception"

\* _ensure_authenticated regenerates the headers once in a call, after the probe when
\* there is one and before any other request: the requests dispatched before the refresh
RequestsBeforeRefresh(c) == Cardinality(RequestsTo(sent[c], {LoginEndpoint}))

\* C12: every private request of a privileged operation is the first request dispatched
\* after the headers were regenerated in its call: no other round trip lies between the
\* regeneration and the dispatch, for the /private/order of place_order in particular
C12_DispatchRightAfterRefresh ==
  \A c \in Callers :
    \A i \in OwnPrivate(sent[c]) : i = RequestsBeforeRefresh(c) + 1

\* a place_order call of the client that has ended and whose order the exchange did not
\* accept: no /private/order request that was answered with a result
PlaceOrderFailed(c) ==
  /\ Ended(c, "place_order")
  /\ ~(/\ sent[c] # <<>>
        /\ Last(sent[c]).endpoint = OrderEndpoint
        /\ Last(sent[c]).result)

\* C13 as stated: a place_order call that ends in failure leaves the authenticated flag
\* and the session's headers exactly as they were when the call was invoked
C13_FailedPlacementLeavesClientState ==
  \A c \in Callers :
    PlaceOrderFailed(c) =>
      /\ authenticated = entry[c].authenticated
      /\ headers = entry[c].headers

\* C13 amended: a place_order call that ends in failure changes the client state through
\* its authentication step only: the flag is never demoted and goes from false to true
\* only with an accepted login probe of the call, and the session's headers are the ones
\* the call signed itself, in its login or its refresh, not altered by the failure
C13_FailedPlacementOnlyAuthenticates ==
  \A c \in Callers :
    PlaceOrderFailed(c) =>
      /\ entry[c].authenticated => authenticated
      /\ authenticated # entry[c].authenticated =>
           /\ sent[c] # <<>>
           /\ sent[c][1].endpoint = LoginEndpoint
           /\ sent[c][1].result
      /\ headers.present
      /\ headers = auth_headers[c]
      /\ headers.timestamp >= began[c]
      /\ headers.timestamp <= clock

C13_Witness ==
  \E c \in Callers :
    /\ PlaceOrderFailed(c)
    /\ Len(sent[c]) = 2
    /\ Last(sent[c]).endpoint = TickerEndpoint
    /\ ~entry[c].authenticated
    /\ authenticated
    /\ entry[c].headers.present
    /\ headers # entry[c].headers

\* the order request that differs from the given one in its side only
OtherSide(args) == [args EXCEPT !.side = IF args.side = "buy" THEN "sell" ELSE "buy"]

\* C14: in every /private/order request the payload's direction is the requested side,
\* is_bid is true exactly for buy, and the action's amount is the requested amount for
\* buy and its negation for sell: the action built for the same request with the other
\* side has the negated amount, the opposite is_bid, and is otherwise the same
C14_SideDeterminesSign ==
  \A c \in Callers :
    \A i \in RequestsTo(sent[c], {OrderEndpoint}) :
      LET args == op[c].args
          a == sent[c][i].payload.action
          twin == SignedAction(network, OtherSide(args), ticker[c], a.nonce)
      IN /\ sent[c][i].payload.direction = args.side
         /\ a.module_data.is_bid = (args.side = "buy")
         /\ a.module_data.amount = IF args.side = "buy" THEN args.amount ELSE 0 - args.amount
         /\ twin.module_data.amount = 0 - a.module_data.amount
         /\ twin.module_data.is_bid = ~a.module_data.is_bid
         /\ [twin EXCEPT !.module_data = a.module_data, !.signed = a.signed] = a

C14_Witness ==
  \E c \in Callers :
    \E i \in RequestsTo(sent[c], {OrderEndpoint}) :
      /\ op[c].args = [side |-> "sell", amount |-> 1]
      /\ sent[c][i].payload.direction = "sell"
      /\ sent[c][i].payload.action.module_data.amount = -1
      /\ ~sent[c][i].payload.action.module_data.is_bid

\* the network a client is not on
OtherNetwork(net) == CHOOSE n \in Networks : n # net

\* every request the client has dispatched and not yet dropped with its call's locals,
\* and every action it has built, use the constants of net and none of the other network
UsesOnly(net) ==
  \A c \in Callers :
    /\ \A i \in 1..Len(sent[c]) :
         /\ sent[c][i].url = ENDPOINTS[net].rest
         /\ sent[c][i].url # ENDPOINTS[OtherNetwork(net)].rest
         /\ sent[c][i].payload.action.built =>
              sent[c][i].payload.action = action[c]
    /\ action[c].built =>
         /\ action[c].DOMAIN_SEPARATOR = PROTOCOL_CONSTANTS[net].DOMAIN_SEPARATOR
         /\ action[c].module_address = PROTOCOL_CONSTANTS[net].TRADE_MODULE_ADDRESS
         /\ action[c].DOMAIN_SEPARATOR # PROTOCOL_CONSTANTS[OtherNetwork(net)].DOMAIN_SEPARATOR
         /\ action[c].module_address # PROTOCOL_CONSTANTS[OtherNetwork(net)].TRADE_MODULE_ADDRESS

\* C15: the network chosen at construction never changes, every request goes to that
\* network's REST base URL, and every signed action carries that network's domain
\* separator and trade-module address, never a constant of the other network
C15_OneNetwork ==
  /\ [](network \in Networks /\ UsesOnly(network))
  /\ [][network' = network]_vars

C15_Witness ==
  \E c \in Callers :
    /\ network = "testnet"
    /\ Ended(c, "place_order")
    /\ Len(sent[c]) = 3
    /\ Last(sent[c]).endpoint = OrderEndpoint
    /\ Last(sent[c]).url = "https://api-demo.lyra.finance"
    /\ Last(sent[c]).payload.action.signed
    /\ Last(sent[c]).payload.action.DOMAIN_SEPARATOR = "0x9bcf"
    /\ Last(sent[c]).payload.action.module_address = "0x87F2"

\* C16: a call of _post makes one POST and returns, never raising: the parsed body
\* whenever the body parses, whatever the status code; None when the body does not
\* parse; None when the connection fails or times out
C16_TransportReturnsBodyOrNone ==
  \A c \in Callers :
    sent[c] # <<>> =>
      /\ Len(sent[c]) = 1
      /\ LET o == sent[c][1].outcome
         IN /\ (o.kind = "response" /\ o.body # Unparseable) => response[c] = o.body
            /\ (o.kind = "response" /\ o.body = Unparseable) => response[c] = None
            /\ o.kind = "exception" => response[c] = None
            /\ response[c] \in BodiesOf(sent[c][1].endpoint) \cup {None}

C16_Witness ==
  \E c \in Callers :
    /\ sent[c] # <<>>
    /\ sent[c][1].endpoint = OrderEndpoint
    /\ sent[c][1].outcome.kind = "response"
    /\ sent[c][1].outcome.status = 403
    /\ Contains(sent[c][1].outcome.body, "error")
    /\ response[c] = sent[c][1].outcome.body

\* what a public read gives when it has no result to give
Degraded(name) == IF name = "get_instruments" THEN JList(<<>>) ELSE None

\* C17: a public read never raises; it returns the exchange's result as it came when the
\* body carries one, and otherwise (transport failure, no body, a body without a result)
\* the empty list for get_instruments and None for get_ticker and get_orderbook
C17_PublicReadsDegrade ==
  \A c \in Callers :
    \A name \in PublicOps :
      Ended(c, name) =>
        /\ ret[c].kind = "return"
        /\ Len(sent[c]) = 1
        /\ sent[c][1].answer \in {"exception", "unparseable"} => Absent(response[c])
        /\ IF ~Absent(response[c]) /\ Contains(response[c], "result")
           THEN ret[c].val = response[c].v.result
           ELSE ret[c].val = Degraded(name)

C17_Witness ==
  \E c \in Callers :
    /\ Ended(c, "get_instruments")
    /\ sent[c][1].answer = "exception"
    /\ ret[c] = Returned(JList(<<>>))

MutatingOps == {"place_order", "cancel_order", "cancel_all_orders"}

\* the bodies with which the exchange accepts the request of a mutating operation
AcceptingBodies(name) == {b \in BodiesOf(OpEndpoint(name)) : Contains(b, "result")}

\* what the client returns for an accepting body
AcceptedValue(name, b) ==
  CASE name = "place_order" -> OrderOutcome(b)
    [] name = "cancel_order" -> cancel_order(b)
    [] name = "cancel_all_orders" -> cancel_all_orders(b)

\* the outcomes of the client, and of the tool over it, for requests the exchange accepted
ClientAccepted(name) == {Returned(AcceptedValue(name, b)) : b \in AcceptingBodies(name)}
ToolAccepted(name) == {ToolResult(name, r) : r \in ClientAccepted(name)}

\* the exchange accepted the request of the caller's mutating operation
RequestAccepted(c) ==
  /\ sent[c] # <<>>
  /\ Last(sent[c]).endpoint = OpEndpoint(op[c].name)
  /\ Last(sent[c]).result

\* C18: a mutating operation, and the tool over it, never ends a request that failed with
\* an outcome that it also gives for a request the exchange accepted
C18_OutcomeTellsFailure ==
  \A c \in Callers :
    (pc[c] = "done" /\ op[c].name \in MutatingOps /\ ~RequestAccepted(c)) =>
      /\ ret[c] # Unset => ret[c] \notin ClientAccepted(op[c].name)
      /\ op[c].tool => toolret[c] \notin ToolAccepted(op[c].name)

\* C19: with two privileged operations in flight on one client, a private request carries
\* the headers of whichever operation wrote the session last before the dispatch: the
\* ones its own refresh signed, or ones the other operation signed; that the second case
\* happens is C19_Witness
C19_HeadersOfLastWriter ==
  \A c \in Callers :
    \A i \in OwnPrivate(sent[c]) :
      LET r == sent[c][i]
      IN /\ r.headers.present
         /\ r.writer \in Callers
         /\ r.writer = c => r.headers = auth_headers[c]
         /\ r.writer # c =>
              /\ auth_headers[r.writer].present
              /\ r.headers.timestamp <= auth_headers[r.writer].timestamp
              /\ r.headers.timestamp >= began[r.writer]

\* an operation has dispatched its private request with headers that are not the ones
\* its own refresh signed but the ones the other operation's refresh signed
C19_Witness ==
  \E c \in Callers :
    \E i \in OwnPrivate(sent[c]) :
      LET r == sent[c][i]
      IN /\ r.writer # c
         /\ r.headers # auth_headers[c]
         /\ pc[r.writer] \in {"post", "wait"}
         /\ r.headers = auth_headers[r.writer]

\* C20: a POST to /private/order comes last in a place_order call, after authentication
\* and right after a ticker fetch of the same call that gave a ticker; it carries the one
\* action of the call, built with a nonce taken in the call and signed; there is one
\* submission per call, and no action exists before the ticker is there
C20_OrderOfSteps ==
  \A c \in Callers :
    /\ action[c].built =>
         /\ op[c].name = "place_order"
         /\ Truthy(ticker[c])
         /\ action[c].nonce.ms >= began[c]
         /\ action[c].nonce.ms <= clock
    /\ \A i \in RequestsTo(sent[c], {OrderEndpoint}) :
         LET r == sent[c][i]
         IN /\ op[c].name = "place_order"
            /\ i = Len(sent[c])
            /\ i >= 2
            /\ sent[c][i - 1].endpoint = TickerEndpoint
            /\ sent[c][i - 1].answer = "json"
            /\ sent[c][i - 1].result
            /\ r.authenticated
            /\ r.headers.present
            /\ r.payload.action.built
            /\ r.payload.action.signed
            /\ r.payload.action = action[c]
            /\ Cardinality(RequestsTo(sent[c], {OrderEndpoint})) = 1
            /\ Cardinality(RequestsTo(sent[c], {TickerEndpoint})) = 1

C20_Witness ==
  \E c \in Callers :
    /\ pc[c] = "wait"
    /\ Len(sent[c]) = 3
    /\ sent[c][1].endpoint = LoginEndpoint
    /\ sent[c][2].endpoint = TickerEndpoint
    /\ sent[c][3].endpoint = OrderEndpoint
    /\ sent[c][3].payload.action.signed
    /\ began[c] = 1
    /\ sent[c][3].payload.action.nonce.ms = 2

\* C21: once the flag is set, a privileged operation sends no login probe: a call that
\* was invoked on an authenticated client has no /private/get_subaccount request, whatever
\* the exchange answers to it, and every probe of a privileged operation was dispatched
\* while the flag was still false
C21_NoProbeOnceAuthenticated ==
  \A c \in Callers :
    op[c].name \in PrivilegedOps =>
      /\ entry[c].authenticated => RequestsTo(sent[c], {LoginEndpoint}) = {}
      /\ entry[c].authenticated => pc[c] \notin {"login_sign", "login_post", "login_wait"}
      /\ \A i \in RequestsTo(sent[c], {LoginEndpoint}) : ~sent[c][i].authenticated

C21_Witness ==
  \E c \in Callers :
    /\ op[c].name \in PrivilegedOps
    /\ pc[c] = "done"
    /\ entry[c].authenticated
    /\ Len(sent[c]) = 1
    /\ sent[c][1].answer = "json"
    /\ ~sent[c][1].result
    /\ Contains(response[c], "error")

ProbeOf(c) == IF RequestsTo(sent[c], {LoginEndpoint}) # {} THEN sent[c][1] ELSE Request("", NoPayload)
Probed(c) == RequestsTo(sent[c], {LoginEndpoint}) # {}
OwnRequestDispatched(c) == \E i \in 1..Len(sent[c]) : sent[c][i].endpoint # LoginEndpoint

\* C23: a privileged operation invoked while the flag is false sends a login probe,
\* whether or not an earlier call's probe failed; when the exchange accepts the probe the
\* flag is set and the operation goes on to dispatch its own request instead of raising
C23_FailedLoginIsRetried ==
  /\ [](\A c \in Callers :
          op[c].name \in PrivilegedOps =>
            /\ (~entry[c].authenticated /\ pc[c] \notin {"login_sign", "login_post"}) =>
                 Probed(c)
            /\ (Probed(c) /\ ProbeOf(c).result) => authenticated
            /\ (Probed(c) /\ ProbeOf(c).result /\ pc[c] = "done") =>
                 OwnRequestDispatched(c) /\ ret[c] # Raised("RuntimeError"))
  /\ \A c \in Callers :
       (op[c].name \in PrivilegedOps /\ ~authenticated /\ pc[c] = "login_sign")
         ~> (Probed(c) /\ ProbeOf(c).answer # "inflight")
  /\ \A c \in Callers :
       (Probed(c) /\ ProbeOf(c).result) ~> (authenticated /\ OwnRequestDispatched(c))

\* the second call's probe is accepted after the first call's probe had failed
C23_Witness ==
  \E c \in Callers :
    /\ calls = 2
    /\ headers.present
    /\ ~entry[c].authenticated
    /\ entry[c].headers.present
    /\ Probed(c)
    /\ ProbeOf(c).result
    /\ authenticated
    /\ OwnRequestDispatched(c)

\* C24: a public read sends its one public request and no login probe, and from its
\* invocation to its end the authenticated flag and the session's auth headers stay what
\* they were, whatever the network does with the request
C24_PublicReadsLeaveAuthAlone ==
  \A c \in Callers :
    op[c].name \in PublicOps =>
      /\ RequestsTo(sent[c], {LoginEndpoint}) = {}
      /\ \A i \in 1..Len(sent[c]) : ~IsPrivate(sent[c][i].endpoint)
      /\ authenticated = entry[c].authenticated
      /\ headers = entry[c].headers
      /\ auth_headers[c] = NoHeaders
      /\ pc[c] \in {"post", "wait", "done"}

C24_Witness ==
  \E c \in Callers :
    /\ Ended(c, "get_ticker")
    /\ sent[c][1].answer = "exception"
    /\ entry[c].authenticated
    /\ entry[c].headers.present
    /\ clock > entry[c].headers.timestamp
====
